---- MODULE Spec2Model ----
(***************************************************************************)
(* PDIV / Pairwise distributed inversion of a block-tridiagonal matrix,   *)
(* as implemented in src/src/sinv/algorithms/pdiv/pdiv_localmap.py and    *)
(* src/algorithms/pdiv_parallel.py.                                        *)
(*                                                                         *)
(* One MPI rank is one process of the model.  A block is a 1 x 1 matrix    *)
(* whose entry lives in the prime field Z/pZ: every operation the code     *)
(* applies to blocks (+, @, unary minus, np.linalg.inv) is a field         *)
(* operation, np.linalg.inv raises exactly when the determinant is zero,   *)
(* and "equal within tolerance" becomes equality.  A partition holds       *)
(* NBlocksLocal blocks on its diagonal, so that its four corner blocks     *)
(* are distinct entries.                                                   *)
(***************************************************************************)
EXTENDS Integers, Sequences, FiniteSets, TLC

\* ------------------------------------------------------------------ bounds
MaxSeed == 5
NBlocksLocal == 2
MaxLogP == 4
MaxCommSize == 4
MaxRuleSeed == 2
MaxRuleSteps == 2
CommSizes == 1..MaxCommSize

\* ------------------------------------------------------- scalar arithmetic
Scalars == 0..100
Modulus == Cardinality(Scalars)

Add(a, b) == (a + b) % Modulus
Neg(a) == (Modulus - a) % Modulus
Sub(a, b) == (a + Modulus - b) % Modulus
Mul(a, b) == (a * b) % Modulus
Mul3(a, b, c) == Mul(Mul(a, b), c)
Mul4(a, b, c, d) == Mul(Mul(Mul(a, b), c), d)
Reciprocal == [a \in Scalars \ {0} |-> CHOOSE x \in Scalars : (a * x) % Modulus = 1]

\* ------------------------------------------------------------ dense matrices
\* A matrix is a sequence of rows.  None stands for Python's None and for
\* "no value": a call that raised returns it.
None == <<>>

RECURSIVE Eliminate(_, _)
Eliminate(Aug, c) ==
    LET n == Len(Aug) IN
    IF c > n THEN Aug
    ELSE LET cand == {r \in c..n : Aug[r][c] # 0} IN
         IF cand = {} THEN None
         ELSE LET p == CHOOSE r \in cand : \A q \in cand : r <= q
                  sw == [Aug EXCEPT ![c] = Aug[p], ![p] = Aug[c]]
                  ipv == Reciprocal[sw[c][c]]
                  prow == [j \in 1..(2 * n) |-> Mul(sw[c][j], ipv)]
                  nxt == [r \in 1..n |->
                            IF r = c THEN prow
                            ELSE [j \in 1..(2 * n) |->
                                    Sub(sw[r][j], Mul(sw[r][c], prow[j]))]]
              IN Eliminate(nxt, c + 1)

\* np.linalg.inv: the inverse, or None when it raises LinAlgError (singular).
np_linalg_inv(M) ==
    LET n == Len(M)
        aug == [i \in 1..n |-> [j \in 1..(2 * n) |->
                   IF j <= n THEN M[i][j] ELSE IF j - n = i THEN 1 ELSE 0]]
        res == Eliminate(aug, 1)
    IN IF res = None THEN None
       ELSE [i \in 1..n |-> [j \in 1..n |-> res[i][n + j]]]

\* ------------------------------------------------------------------ inputs
\* The block-tridiagonal matrix A of a run, chosen by a seed (the test driver
\* draws it from a seeded generator).  Indices are zero-based as in the code.
\* Seeds 3 (mod 4) make the partition of rank 0 singular, seeds 0 (mod 4) the
\* partition of rank 1; A itself stays non-singular for comm_size >= 2.
\* Seeds 5 (mod 8) make the coupling of partitions 0 and 1 singular while both
\* partitions are invertible, and the partition of rank 2 singular.
CouplingSeed(s) == s % 8 = 5

SingularRow(s) ==
    IF CouplingSeed(s) THEN 2 * NBlocksLocal
    ELSE IF s % 4 = 3 THEN NBlocksLocal - 1
    ELSE IF s % 4 = 0 THEN NBlocksLocal ELSE -1

Diag(s, i) == IF i = SingularRow(s) THEN 0 ELSE 2 + ((s + i) % 3)

\* A[i][i+1]
Upper(s, i) ==
    IF CouplingSeed(s) /\ i \in {NBlocksLocal - 2, NBlocksLocal, 2 * NBlocksLocal}
      THEN 0
    ELSE IF s % 4 = 0 /\ i = SingularRow(s) THEN 0 ELSE 1 + ((s + 2 * i) % 2)

\* A[i+1][i]
Lower(s, i) ==
    IF CouplingSeed(s) /\ i \in {NBlocksLocal - 2, NBlocksLocal} THEN 0
    ELSE IF CouplingSeed(s) /\ i = NBlocksLocal - 1
      THEN Mul(Mul(Diag(s, i), Diag(s, i + 1)), Reciprocal[Upper(s, i)])
    ELSE IF s % 4 = 3 /\ i + 1 = SingularRow(s) THEN 0
    ELSE IF (s + i) % 3 = 0 THEN Modulus - 1 ELSE 1

AEntry(s, i, j) ==
    IF i = j THEN Diag(s, i)
    ELSE IF j = i + 1 THEN Upper(s, i)
    ELSE IF i = j + 1 THEN Lower(s, j)
    ELSE 0

generateBandedDiagonalMatrix(s, size) ==
    [i \in 1..size |-> [j \in 1..size |-> AEntry(s, i - 1, j - 1)]]

\* Partitioner: partition r is the diagonal square of NBlocksLocal blocks
\* starting at block row r * NBlocksLocal; bridge r links partitions r, r+1.
partition_K(s, r) ==
    [i \in 1..NBlocksLocal |-> [j \in 1..NBlocksLocal |->
        AEntry(s, r * NBlocksLocal + i - 1, r * NBlocksLocal + j - 1)]]

partition_Bu(s, P) ==
    [r \in 1..(P - 1) |-> AEntry(s, r * NBlocksLocal - 1, r * NBlocksLocal)]

partition_Bl(s, P) ==
    [r \in 1..(P - 1) |-> AEntry(s, r * NBlocksLocal, r * NBlocksLocal - 1)]

\* ------------------------------------------------------------ pure functions
\* Python lists are zero-based: At(l, i) is l[i].
At(l, i) == l[i + 1]

Pow2(k) == 2 ^ k

\* int(math.log2(n)) for n >= 1
IntLog2(n) == CHOOSE k \in 0..n : Pow2(k) <= n /\ n < Pow2(k + 1)

\* math.log2(n).is_integer()
IsPowerOfTwo(n) == Pow2(IntLog2(n)) = n

\* math.ceil(d / 2) for an integer d >= 0
CeilHalf(d) == (d + 1) \div 2

\* Variant: the half of the group's width rounded down instead of up.
get_middle_process_floor(starting_process, ending_process) ==
    starting_process - 1 + ((ending_process - starting_process) \div 2)

get_middle_process(starting_process, ending_process) ==
    starting_process - 1 + CeilHalf(ending_process - starting_process)

process_stride(current_step) == Pow2(current_step)

\* Variant: the identity in the slots 1, 4, 5, 8 counted from zero.
initialize_matrixmaps_one_based ==
    [i \in 1..12 |-> IF i - 1 \in {1, 4, 5, 8} THEN 1 ELSE 0]

initialize_matrixmaps ==
    [i \in 1..12 |-> IF i - 1 \in {0, 3, 4, 7} THEN 1 ELSE 0]

initialize_crossmaps == [i \in 1..12 |-> 0]

\* Corner blocks of the local partition.
K_UL(K) == K[1][1]
K_UR(K) == K[1][Len(K)]
K_LL(K) == K[Len(K)][1]
K_LR(K) == K[Len(K)][Len(K)]

produce_UUR_ULL_ULR(K, l_M) ==
    LET UUR == Add(Mul(At(l_M, 0), K_UR(K)), Mul(At(l_M, 1), K_LR(K)))
        ULL == Add(Mul(K_LL(K), At(l_M, 4)), Mul(K_LR(K), At(l_M, 5)))
        ULR == Add(K_LR(K),
               Add(Mul3(K_LL(K), At(l_M, 8), K_UR(K)),
               Add(Mul3(K_LL(K), At(l_M, 9), K_LR(K)),
               Add(Mul3(K_LR(K), At(l_M, 10), K_UR(K)),
                   Mul3(K_LR(K), At(l_M, 11), K_LR(K))))))
    IN <<UUR, ULL, ULR>>

produce_DUL_DUR_DLL(K, l_M) ==
    LET DUL == Add(K_UL(K),
               Add(Mul3(K_UL(K), At(l_M, 8), K_UL(K)),
               Add(Mul3(K_UL(K), At(l_M, 9), K_LL(K)),
               Add(Mul3(K_UR(K), At(l_M, 10), K_UL(K)),
                   Mul3(K_UR(K), At(l_M, 11), K_LL(K))))))
        DUR == Add(Mul(K_UL(K), At(l_M, 2)), Mul(K_UR(K), At(l_M, 3)))
        DLL == Add(Mul(At(l_M, 6), K_UL(K)), Mul(At(l_M, 7), K_LL(K)))
    IN <<DUL, DUR, DLL>>

\* Variant: the coupling matrix built from ULL and DUR.
J_matrix_from_ULL_DUR(l_U, Bu_mid, Bl_mid) ==
    << <<1, Neg(Mul(At(l_U, 1), Bl_mid))>>,
       <<Neg(Mul(At(l_U, 4), Bu_mid)), 1>> >>

\* The coupling matrix before its inversion.
J_matrix(l_U, Bu_mid, Bl_mid) ==
    << <<1, Neg(Mul(At(l_U, 3), Bl_mid))>>,
       <<Neg(Mul(At(l_U, 2), Bu_mid)), 1>> >>

\* The inverted coupling matrix, or None (LinAlgError).
get_J(l_U, Bu_mid, Bl_mid) == np_linalg_inv(J_matrix(l_U, Bu_mid, Bl_mid))

update_crossmap_upper(l_M, l_M_ip1, l_C, Bu_mid, J) ==
    LET M3 == At(l_M, 2)
        M4 == At(l_M, 3)
        M7 == At(l_M, 6)
        M8 == At(l_M, 7)
        M3_ip1 == At(l_M_ip1, 2)
        M4_ip1 == At(l_M_ip1, 3)
        M7_ip1 == At(l_M_ip1, 6)
        M8_ip1 == At(l_M_ip1, 7)
        J12 == J[1][2]
    IN [l_C EXCEPT
          ![1] = Add(@, Mul4(M3, Bu_mid, J12, M7_ip1)),
          ![2] = Add(@, Mul4(M3, Bu_mid, J12, M8_ip1)),
          ![3] = Add(@, Mul4(M4, Bu_mid, J12, M7_ip1)),
          ![4] = Add(@, Mul4(M4, Bu_mid, J12, M8_ip1)),
          ![5] = Add(@, Mul4(M3_ip1, Bu_mid, J12, M7)),
          ![6] = Add(@, Mul4(M3_ip1, Bu_mid, J12, M8)),
          ![7] = Add(@, Mul4(M4_ip1, Bu_mid, J12, M7)),
          ![8] = Add(@, Mul4(M4_ip1, Bu_mid, J12, M8))]

\* Variant: the middle rule also adds products to slots 8..11.
update_crossmap_middle_twelve_slots(l_M, l_M_ip1, l_C, Bu_mid, Bl_mid, J) ==
    LET M3 == At(l_M, 2)
        M4 == At(l_M, 3)
        M7 == At(l_M, 6)
        M8 == At(l_M, 7)
        M1_ip1 == At(l_M_ip1, 0)
        M2_ip1 == At(l_M_ip1, 1)
        M5_ip1 == At(l_M_ip1, 4)
        M6_ip1 == At(l_M_ip1, 5)
        J11 == J[1][1]
        J22 == J[2][2]
    IN [l_C EXCEPT
          ![1] = Add(@, Mul4(M3, Bu_mid, J11, M1_ip1)),
          ![2] = Add(@, Mul4(M3, Bu_mid, J11, M2_ip1)),
          ![3] = Add(@, Mul4(M4, Bu_mid, J11, M1_ip1)),
          ![4] = Add(@, Mul4(M4, Bu_mid, J11, M2_ip1)),
          ![5] = Add(@, Mul4(M5_ip1, Bl_mid, J22, M7)),
          ![6] = Add(@, Mul4(M5_ip1, Bl_mid, J22, M8)),
          ![7] = Add(@, Mul4(M6_ip1, Bl_mid, J22, M7)),
          ![8] = Add(@, Mul4(M6_ip1, Bl_mid, J22, M8)),
          ![9] = Add(@, Mul4(M3, Bu_mid, J11, M7)),
          ![10] = Add(@, Mul4(M3, Bu_mid, J11, M8)),
          ![11] = Add(@, Mul4(M4, Bu_mid, J11, M7)),
          ![12] = Add(@, Mul4(M4, Bu_mid, J11, M8))]

update_crossmap_middle(l_M, l_M_ip1, l_C, Bu_mid, Bl_mid, J) ==
    LET M3 == At(l_M, 2)
        M4 == At(l_M, 3)
        M7 == At(l_M, 6)
        M8 == At(l_M, 7)
        M1_ip1 == At(l_M_ip1, 0)
        M2_ip1 == At(l_M_ip1, 1)
        M5_ip1 == At(l_M_ip1, 4)
        M6_ip1 == At(l_M_ip1, 5)
        J11 == J[1][1]
        J22 == J[2][2]
    IN [l_C EXCEPT
          ![1] = Add(@, Mul4(M3, Bu_mid, J11, M1_ip1)),
          ![2] = Add(@, Mul4(M3, Bu_mid, J11, M2_ip1)),
          ![3] = Add(@, Mul4(M4, Bu_mid, J11, M1_ip1)),
          ![4] = Add(@, Mul4(M4, Bu_mid, J11, M2_ip1)),
          ![5] = Add(@, Mul4(M5_ip1, Bl_mid, J22, M7)),
          ![6] = Add(@, Mul4(M5_ip1, Bl_mid, J22, M8)),
          ![7] = Add(@, Mul4(M6_ip1, Bl_mid, J22, M7)),
          ![8] = Add(@, Mul4(M6_ip1, Bl_mid, J22, M8))]

\* Variant: the lower rule with the partner's M[1] in the increment of C[1],
\* as the pattern of its other slots would have it.
update_crossmap_lower_second_slot_from_M2(l_M, l_M_ip1, l_C, Bl_mid, J) ==
    LET M1 == At(l_M, 0)
        M2 == At(l_M, 1)
        M5 == At(l_M, 4)
        M6 == At(l_M, 5)
        M1_ip1 == At(l_M_ip1, 0)
        M2_ip1 == At(l_M_ip1, 1)
        M5_ip1 == At(l_M_ip1, 4)
        M6_ip1 == At(l_M_ip1, 5)
        J21 == J[2][1]
    IN [l_C EXCEPT
          ![1] = Add(@, Mul4(M5, Bl_mid, J21, M1_ip1)),
          ![2] = Add(@, Mul4(M5, Bl_mid, J21, M2_ip1)),
          ![3] = Add(@, Mul4(M6, Bl_mid, J21, M1_ip1)),
          ![4] = Add(@, Mul4(M6, Bl_mid, J21, M2_ip1)),
          ![5] = Add(@, Mul4(M5_ip1, Bl_mid, J21, M1)),
          ![6] = Add(@, Mul4(M5_ip1, Bl_mid, J21, M2)),
          ![7] = Add(@, Mul4(M6_ip1, Bl_mid, J21, M1)),
          ![8] = Add(@, Mul4(M6_ip1, Bl_mid, J21, M2))]

update_crossmap_lower(l_M, l_M_ip1, l_C, Bl_mid, J) ==
    LET M1 == At(l_M, 0)
        M2 == At(l_M, 1)
        M5 == At(l_M, 4)
        M6 == At(l_M, 5)
        M1_ip1 == At(l_M_ip1, 0)
        M2_ip1 == At(l_M_ip1, 1)
        M5_ip1 == At(l_M_ip1, 4)
        M6_ip1 == At(l_M_ip1, 5)
        J21 == J[2][1]
    IN [l_C EXCEPT
          ![1] = Add(@, Mul4(M5, Bl_mid, J21, M1_ip1)),
          ![2] = Add(@, Mul4(M5, Bl_mid, J21, M1_ip1)),
          ![3] = Add(@, Mul4(M6, Bl_mid, J21, M1_ip1)),
          ![4] = Add(@, Mul4(M6, Bl_mid, J21, M2_ip1)),
          ![5] = Add(@, Mul4(M5_ip1, Bl_mid, J21, M1)),
          ![6] = Add(@, Mul4(M5_ip1, Bl_mid, J21, M2)),
          ![7] = Add(@, Mul4(M6_ip1, Bl_mid, J21, M1)),
          ![8] = Add(@, Mul4(M6_ip1, Bl_mid, J21, M2))]

\* Variant: the middle rank takes the upper rule.
update_crossmap_middle_as_upper(comm_rank, l_C, l_M, l_M_ip1, Bu_mid, Bl_mid, J, middle_process) ==
    IF l_M_ip1 = None THEN None
    ELSE IF comm_rank <= middle_process
           THEN update_crossmap_upper(l_M, l_M_ip1, l_C, Bu_mid, J)
    ELSE update_crossmap_lower(l_M, l_M_ip1, l_C, Bl_mid, J)

\* update_crossmap: the rule chosen by the rank; None when l_M_ip1 is None
\* (subscripting None raises TypeError in each of the three rules).
update_crossmap(comm_rank, l_C, l_M, l_M_ip1, Bu_mid, Bl_mid, J, middle_process) ==
    IF l_M_ip1 = None THEN None
    ELSE IF comm_rank < middle_process
           THEN update_crossmap_upper(l_M, l_M_ip1, l_C, Bu_mid, J)
    ELSE IF comm_rank = middle_process
           THEN update_crossmap_middle(l_M, l_M_ip1, l_C, Bu_mid, Bl_mid, J)
    ELSE update_crossmap_lower(l_M, l_M_ip1, l_C, Bl_mid, J)

\* Variant: the upper rule with every read taken from the maps as they were
\* before the rule.
update_matrixmap_upper_from_snapshot(l_M, UUR, DUR, ULL, DLL, Bu_mid, Bl_mid, J11, J12, J22) ==
    <<Add(At(l_M, 0), Mul4(UUR, Bu_mid, J12, At(l_M, 6))),
      Add(At(l_M, 1), Mul4(UUR, Bu_mid, J12, At(l_M, 7))),
      Mul4(At(l_M, 2), Bu_mid, J11, DUR),
      Mul4(At(l_M, 3), Bu_mid, J11, DUR),
      Add(At(l_M, 4), Mul4(At(l_M, 2), Bu_mid, J12, ULL)),
      Add(At(l_M, 5), Mul4(At(l_M, 3), Bu_mid, J12, ULL)),
      Mul4(DLL, Bl_mid, J22, At(l_M, 6)),
      Mul4(DLL, Bl_mid, J22, At(l_M, 7)),
      Add(At(l_M, 8), Mul4(At(l_M, 2), Bu_mid, J12, At(l_M, 6))),
      Add(At(l_M, 9), Mul4(At(l_M, 2), Bu_mid, J12, At(l_M, 7))),
      Add(At(l_M, 10), Mul4(At(l_M, 3), Bu_mid, J12, At(l_M, 6))),
      Add(At(l_M, 11), Mul4(At(l_M, 3), Bu_mid, J12, At(l_M, 7)))>>

\* Variant: the lower rule with every read taken from the maps as they were
\* before the rule.
update_matrixmap_lower_from_snapshot(l_M, UUR, DUR, ULL, DLL, Bu_mid, Bl_mid, J11, J21, J22) ==
    <<Mul4(UUR, Bu_mid, J11, At(l_M, 0)),
      Mul4(UUR, Bu_mid, J11, At(l_M, 1)),
      Add(At(l_M, 2), Mul4(At(l_M, 4), Bl_mid, J21, DUR)),
      Add(At(l_M, 3), Mul4(At(l_M, 5), Bl_mid, J21, DUR)),
      Mul4(At(l_M, 5), Bl_mid, J22, ULL),
      Mul4(At(l_M, 4), Bl_mid, J22, ULL),
      Add(At(l_M, 6), Mul4(DLL, Bl_mid, J21, At(l_M, 0))),
      Add(At(l_M, 7), Mul4(DLL, Bl_mid, J21, At(l_M, 1))),
      Add(At(l_M, 8), Mul4(At(l_M, 4), Bl_mid, J21, At(l_M, 0))),
      Add(At(l_M, 9), Mul4(At(l_M, 4), Bl_mid, J21, At(l_M, 1))),
      Add(At(l_M, 10), Mul4(At(l_M, 5), Bl_mid, J21, At(l_M, 0))),
      Add(At(l_M, 11), Mul4(At(l_M, 5), Bl_mid, J21, At(l_M, 1)))>>

\* The statements of a rule run in order on the same list: a later statement
\* reads what an earlier one wrote.
update_matrixmap_upper(l_M, UUR, DUR, ULL, DLL, Bu_mid, Bl_mid, J11, J12, J22) ==
    LET m0 == Add(At(l_M, 0), Mul4(UUR, Bu_mid, J12, At(l_M, 6)))
        m1 == Add(At(l_M, 1), Mul4(UUR, Bu_mid, J12, At(l_M, 7)))
        m2 == Mul4(At(l_M, 2), Bu_mid, J11, DUR)
        m3 == Mul4(At(l_M, 3), Bu_mid, J11, DUR)
        m4 == Add(At(l_M, 4), Mul4(m2, Bu_mid, J12, ULL))
        m5 == Add(At(l_M, 5), Mul4(m3, Bu_mid, J12, ULL))
        m6 == Mul4(DLL, Bl_mid, J22, At(l_M, 6))
        m7 == Mul4(DLL, Bl_mid, J22, At(l_M, 7))
        m8 == Add(At(l_M, 8), Mul4(m2, Bu_mid, J12, m6))
        m9 == Add(At(l_M, 9), Mul4(m2, Bu_mid, J12, m7))
        m10 == Add(At(l_M, 10), Mul4(m3, Bu_mid, J12, m6))
        m11 == Add(At(l_M, 11), Mul4(m3, Bu_mid, J12, m7))
    IN <<m0, m1, m2, m3, m4, m5, m6, m7, m8, m9, m10, m11>>

update_matrixmap_lower(l_M, UUR, DUR, ULL, DLL, Bu_mid, Bl_mid, J11, J21, J22) ==
    LET m0 == Mul4(UUR, Bu_mid, J11, At(l_M, 0))
        m1 == Mul4(UUR, Bu_mid, J11, At(l_M, 1))
        m2 == Add(At(l_M, 2), Mul4(At(l_M, 4), Bl_mid, J21, DUR))
        m3 == Add(At(l_M, 3), Mul4(At(l_M, 5), Bl_mid, J21, DUR))
        m4 == Mul4(At(l_M, 5), Bl_mid, J22, ULL)
        m5 == Mul4(m4, Bl_mid, J22, ULL)
        m6 == Add(At(l_M, 6), Mul4(DLL, Bl_mid, J21, m0))
        m7 == Add(At(l_M, 7), Mul4(DLL, Bl_mid, J21, m1))
        m8 == Add(At(l_M, 8), Mul4(m4, Bl_mid, J21, m0))
        m9 == Add(At(l_M, 9), Mul4(m4, Bl_mid, J21, m1))
        m10 == Add(At(l_M, 10), Mul4(m5, Bl_mid, J21, m0))
        m11 == Add(At(l_M, 11), Mul4(m5, Bl_mid, J21, m1))
    IN <<m0, m1, m2, m3, m4, m5, m6, m7, m8, m9, m10, m11>>

update_matrixmap(comm_rank, l_M, l_U, Bu_mid, Bl_mid, J, middle_process) ==
    LET UUR == At(l_U, 0)
        DUR == At(l_U, 4)
        ULL == At(l_U, 1)
        DLL == At(l_U, 5)
        J11 == J[1][1]
        J12 == J[1][2]
        J21 == J[2][1]
        J22 == J[2][2]
    IN IF comm_rank <= middle_process
         THEN update_matrixmap_upper(l_M, UUR, DUR, ULL, DLL, Bu_mid, Bl_mid, J11, J12, J22)
         ELSE update_matrixmap_lower(l_M, UUR, DUR, ULL, DLL, Bu_mid, Bl_mid, J11, J21, J22)

\* -------------------------------------------------------------------- state
VARIABLES
    comm_size,        \* MPI.COMM_WORLD.Get_size()
    seed,             \* the input matrix of the run
    send_mode,        \* "buffered": comm.send returns at once;
                      \* "rendezvous": it returns when the receive is posted
    entry,            \* the function every rank runs: "pdiv_localmap" or "pdiv"
    pc,               \* per rank: where it is in its program
    err,              \* per rank: the exception that ended it, or "none"
    current_step,     \* per rank: loop variable of pdiv_localmap
    active_process,   \* per rank: loop variable of update_maps
    process,          \* per rank: loop variable of the send loops of get_U
    tag,              \* per rank: tag of its next send or receive
    K_local,          \* per rank: the partition, then its inverse
    l_M,              \* per rank: the 12 matrix maps (None before they exist)
    l_C,              \* per rank: the 12 cross maps (None before they exist)
    l_U,              \* per rank: UUR, ULL, ULR, DUL, DUR, DLL of get_U
    l_upperbridges,   \* per rank: its copy of the list of upper bridges
    l_lowerbridges,   \* per rank: its copy of the list of lower bridges
    ret,              \* per rank: what pdiv_localmap returned, or None
    chan,             \* chan[src][dst]: messages sent and not yet received
    sent,             \* history: every send that was made
    produced,         \* history: the blocks each producer computed, per step
    M_pre,            \* history: per rank, its l_M on entering get_U of a step
    n_C_updates,      \* history: per rank, completed update_crossmap calls
    n_M_updates,      \* history: per rank, completed update_matrixmap calls
    g_size, g_step, g_rank, g_active, g_groups, g_hits,
                      \* the arguments and results of the update rules applied
                      \* on their own
    h_M, h_M_ip1, h_C, h_U, h_Bu_mid, h_Bl_mid, h_n, h_applied
                      \* one rank's walk through the group loop of update_maps

procVars == <<comm_size, seed, send_mode, entry, pc, err, current_step,
              active_process, process, tag, K_local, l_M, l_C, l_U,
              l_upperbridges, l_lowerbridges, ret, chan, sent, produced,
              M_pre, n_C_updates, n_M_updates>>
groupVars == <<g_size, g_step, g_rank, g_active, g_groups, g_hits>>
ruleVars == <<h_M, h_M_ip1, h_C, h_U, h_Bu_mid, h_Bl_mid, h_n, h_applied>>
harnessVars == <<groupVars, ruleVars>>
vars == <<procVars, groupVars, ruleVars>>
config == <<comm_size, seed, send_mode, entry, l_upperbridges, l_lowerbridges>>

Ranks == 0..(comm_size - 1)

\* Variant: at least one reduction step, whatever the communicator.
n_reduction_steps_at_least_one ==
    IF IntLog2(comm_size) = 0 THEN 1 ELSE IntLog2(comm_size)

n_reduction_steps == IntLog2(comm_size)

\* range(0, comm_size, process_stride)
range_active_process(size, step) ==
    {g \in 0..(size - 1) : g % process_stride(step) = 0}

\* Variant: the group taken one rank too wide.
ending_process_inclusive(g, step) == g + process_stride(step)

ending_process_of(g, step) == g + process_stride(step) - 1

\* the membership test of update_maps
in_group(rank, g, step) == rank >= g /\ rank <= ending_process_of(g, step)

\* The first group at or after `from` in the loop of update_maps that holds
\* the rank, or -1.
next_group(rank, step, from) ==
    LET c == {g \in range_active_process(comm_size, step) :
                 g >= from /\ in_group(rank, g, step)}
    IN IF c = {} THEN -1 ELSE CHOOSE g \in c : \A h \in c : g <= h

\* Where the two nested loops take the rank next: <<step, group>>, or
\* <<step, -1>> when the steps are exhausted and pdiv_localmap returns.
RECURSIVE advance(_, _, _)
advance(rank, step, from) ==
    IF step > n_reduction_steps THEN <<step, -1>>
    ELSE LET g == next_group(rank, step, from) IN
         IF g # -1 THEN <<step, g>> ELSE advance(rank, step + 1, 0)

starting_process(r) == active_process[r]
ending_process(r) == ending_process_of(active_process[r], current_step[r])
middle_process(r) == get_middle_process(starting_process(r), ending_process(r))

\* Variant: the two lists of bridges returned in the other order.
pdiv_localmap_return_swapped(r, K) ==
    <<K, l_lowerbridges[r], l_upperbridges[r]>>

\* Variant: the first corner of the returned partition multiplied by the
\* matrix map M[0], as a partition rebuilt from the maps would be.
pdiv_localmap_return_from_maps(r, K) ==
    <<[K EXCEPT ![1][1] = Mul(At(l_M'[r], 0), @)],
      l_upperbridges[r], l_lowerbridges[r]>>

\* return K_local, l_upperbridges, l_lowerbridges
pdiv_localmap_return(r, K) == <<K, l_upperbridges[r], l_lowerbridges[r]>>

\* The rank on entering get_U for group g of step k, or on returning.
Enter(r, tgt, K) ==
    LET k == tgt[1]
        g == tgt[2]
        mid == get_middle_process(g, ending_process_of(g, k))
    IN IF g = -1
       THEN /\ pc' = [pc EXCEPT ![r] = "done"]
            /\ ret' = [ret EXCEPT ![r] = pdiv_localmap_return(r, K)]
            /\ UNCHANGED <<err, current_step, active_process, process, tag, l_U, M_pre>>
       ELSE /\ pc' = [pc EXCEPT ![r] = IF r = mid THEN "produceU" ELSE "recvU"]
            /\ current_step' = [current_step EXCEPT ![r] = k]
            /\ active_process' = [active_process EXCEPT ![r] = g]
            /\ tag' = [tag EXCEPT ![r] = 0]
            /\ l_U' = [l_U EXCEPT ![r] = <<0, 0, 0, 0, 0, 0>>]
            /\ M_pre' = [M_pre EXCEPT ![r] = (k :> l_M'[r]) @@ @]
            /\ UNCHANGED <<err, process, ret>>

Raise(r, e) ==
    /\ pc' = [pc EXCEPT ![r] = "error"]
    /\ err' = [err EXCEPT ![r] = e]
    /\ UNCHANGED <<current_step, active_process, process, tag, l_U, ret, M_pre>>

\* ------------------------------------------------------------------ actions
\* pdiv (pdiv_parallel.py): the power-of-two check, then the first helper,
\* a stub returning None, whose result the caller unpacks into four names.
pdiv(r) ==
    /\ entry = "pdiv"
    /\ pc[r] = "start"
    /\ IF ~IsPowerOfTwo(comm_size)
         THEN Raise(r, "ValueError")
         ELSE Raise(r, "TypeError")
    /\ UNCHANGED <<config, K_local, l_M, l_C, chan, sent, produced,
                   n_C_updates, n_M_updates, harnessVars>>

\* Variant: a singular partition is left as it is and the run goes on.
invert_partition_unchecked(K) ==
    IF np_linalg_inv(K) = None THEN K ELSE np_linalg_inv(K)

invert_partition(K) == np_linalg_inv(K)

\* pdiv_localmap up to its first communication: the local inversion, the
\* seeding of the maps and the entry into the loops.
pdiv_localmap(r) ==
    /\ entry = "pdiv_localmap"
    /\ pc[r] = "start"
    /\ LET K == invert_partition(K_local[r]) IN
       IF K = None
         THEN /\ Raise(r, "LinAlgError")
              /\ UNCHANGED <<K_local, l_M, l_C>>
         ELSE /\ K_local' = [K_local EXCEPT ![r] = K]
              /\ l_M' = [l_M EXCEPT ![r] = initialize_matrixmaps]
              /\ l_C' = [l_C EXCEPT ![r] = initialize_crossmaps]
              /\ Enter(r, advance(r, 1, 0), K)
    /\ UNCHANGED <<config, chan, sent, produced, n_C_updates, n_M_updates,
                   harnessVars>>

\* The destinations of a producer's send loop, in order.
first_dest(r) ==
    CHOOSE p \in starting_process(r)..ending_process(r) :
        /\ p # r
        /\ \A q \in starting_process(r)..ending_process(r) : q # r => p <= q

\* Variant: the send loop running one rank past the group's end.
next_dest_past_end(r) ==
    LET c == {p \in (process[r] + 1)..(ending_process(r) + 1) : p # r}
    IN IF c = {} THEN -1 ELSE CHOOSE p \in c : \A q \in c : p <= q

next_dest(r) ==
    LET c == {p \in (process[r] + 1)..ending_process(r) : p # r}
    IN IF c = {} THEN -1 ELSE CHOOSE p \in c : \A q \in c : p <= q

get_U_produce_upper(r) ==
    /\ pc[r] = "produceU"
    /\ LET b == produce_UUR_ULL_ULR(K_local[r], l_M[r]) IN
       /\ l_U' = [l_U EXCEPT ![r] = <<b[1], b[2], b[3], @[4], @[5], @[6]>>]
       /\ produced' = produced \cup
              {[rank |-> r, step |-> current_step[r], half |-> "U", blocks |-> b]}
    /\ pc' = [pc EXCEPT ![r] = "sendU"]
    /\ process' = [process EXCEPT ![r] = first_dest(r)]
    /\ tag' = [tag EXCEPT ![r] = 0]
    /\ UNCHANGED <<config, err, current_step, active_process, K_local, l_M, l_C,
                   ret, chan, sent, M_pre, n_C_updates, n_M_updates, harnessVars>>

get_U_produce_lower(r) ==
    /\ pc[r] = "produceD"
    /\ LET b == produce_DUL_DUR_DLL(K_local[r], l_M[r]) IN
       /\ l_U' = [l_U EXCEPT ![r] = <<@[1], @[2], @[3], b[1], b[2], b[3]>>]
       /\ produced' = produced \cup
              {[rank |-> r, step |-> current_step[r], half |-> "D", blocks |-> b]}
    /\ pc' = [pc EXCEPT ![r] = "sendD"]
    /\ process' = [process EXCEPT ![r] = first_dest(r)]
    /\ tag' = [tag EXCEPT ![r] = 3]
    /\ UNCHANGED <<config, err, current_step, active_process, K_local, l_M, l_C,
                   ret, chan, sent, M_pre, n_C_updates, n_M_updates, harnessVars>>

\* The rank a receiving rank names as source.
recv_source(q) ==
    IF pc[q] = "recvU" THEN middle_process(q) ELSE middle_process(q) + 1

\* A sender after one comm.send: the next tag, the next destination, or
\* the code after the loop.
after_send(r) ==
    IF tag[r] % 3 < 2
      THEN [pc |-> pc[r], process |-> process[r], tag |-> tag[r] + 1]
    ELSE IF next_dest(r) # -1
      THEN [pc |-> pc[r], process |-> next_dest(r), tag |-> tag[r] - 2]
    ELSE IF pc[r] = "sendU"
      THEN [pc |-> "recvD", process |-> process[r], tag |-> 3]
    ELSE [pc |-> "merge", process |-> process[r], tag |-> tag[r]]

\* Variant: a receiver that does not wait for the blocks of middle + 1.
after_recv_upper_only(q) ==
    IF tag[q] % 3 < 2 THEN [pc |-> pc[q], tag |-> tag[q] + 1]
    ELSE IF q = middle_process(q) + 1 /\ pc[q] = "recvU"
      THEN [pc |-> "produceD", tag |-> 3]
    ELSE [pc |-> "merge", tag |-> tag[q]]

\* A receiver after one comm.recv.
after_recv(q) ==
    IF tag[q] % 3 < 2 THEN [pc |-> pc[q], tag |-> tag[q] + 1]
    ELSE IF pc[q] = "recvU"
      THEN IF q = middle_process(q) + 1
             THEN [pc |-> "produceD", tag |-> 3]
             ELSE [pc |-> "recvD", tag |-> 3]
    ELSE [pc |-> "merge", tag |-> tag[q]]

message(r) ==
    [tag |-> tag[r], val |-> At(l_U[r], tag[r]), step |-> current_step[r]]

sent_record(r) ==
    [src |-> r, dst |-> process[r], tag |-> tag[r], step |-> current_step[r],
     val |-> At(l_U[r], tag[r]),
     nth |-> Cardinality({m \in sent : m.src = r})]

\* comm.send(block, dest=process, tag=t)
comm_send(r) ==
    /\ pc[r] \in {"sendU", "sendD"}
    /\ IF process[r] >= comm_size
         THEN \* invalid rank: MPI raises
              /\ Raise(r, "MPIError")
              /\ UNCHANGED <<chan, sent>>
       ELSE IF send_mode = "buffered"
         THEN /\ chan' = [chan EXCEPT ![r][process[r]] = Append(@, message(r))]
              /\ sent' = sent \cup {sent_record(r)}
              /\ pc' = [pc EXCEPT ![r] = after_send(r).pc]
              /\ process' = [process EXCEPT ![r] = after_send(r).process]
              /\ tag' = [tag EXCEPT ![r] = after_send(r).tag]
              /\ UNCHANGED <<err, current_step, active_process, l_U, ret, M_pre>>
       ELSE LET q == process[r] IN
              \* the send completes with the matching receive
              /\ pc[q] \in {"recvU", "recvD"}
              /\ recv_source(q) = r
              /\ tag[q] = tag[r]
              /\ sent' = sent \cup {sent_record(r)}
              /\ l_U' = [l_U EXCEPT ![q][tag[q] + 1] = message(r).val]
              /\ pc' = [pc EXCEPT ![r] = after_send(r).pc, ![q] = after_recv(q).pc]
              /\ process' = [process EXCEPT ![r] = after_send(r).process]
              /\ tag' = [tag EXCEPT ![r] = after_send(r).tag, ![q] = after_recv(q).tag]
              /\ UNCHANGED <<chan, err, current_step, active_process, ret, M_pre>>
    /\ UNCHANGED <<config, K_local, l_M, l_C, produced, n_C_updates,
                   n_M_updates, harnessVars>>

\* The position in a channel of the first message with the tag, or 0.
first_match(q, t) ==
    LET c == {i \in 1..Len(q) : q[i].tag = t}
    IN IF c = {} THEN 0 ELSE CHOOSE i \in c : \A j \in c : i <= j

remove_at(q, i) == [j \in 1..(Len(q) - 1) |-> IF j < i THEN q[j] ELSE q[j + 1]]

\* Variant: a receive that returns a zero block when no message is there.
comm_recv_nowait(r) ==
    /\ pc[r] \in {"recvU", "recvD"}
    /\ IF recv_source(r) >= comm_size
         THEN /\ Raise(r, "MPIError")
              /\ UNCHANGED chan
         ELSE LET s == recv_source(r)
                  i == first_match(chan[s][r], tag[r])
              IN /\ l_U' = [l_U EXCEPT ![r][tag[r] + 1] =
                              IF i = 0 THEN 0 ELSE chan[s][r][i].val]
                 /\ chan' = [chan EXCEPT ![s][r] =
                              IF i = 0 THEN @ ELSE remove_at(@, i)]
                 /\ pc' = [pc EXCEPT ![r] = after_recv(r).pc]
                 /\ tag' = [tag EXCEPT ![r] = after_recv(r).tag]
                 /\ UNCHANGED <<err, current_step, active_process, process, ret, M_pre>>
    /\ UNCHANGED <<config, K_local, l_M, l_C, sent, produced, n_C_updates,
                   n_M_updates, harnessVars>>

\* Variant: a receive that takes a message of its tag from any rank.
comm_recv_any_source(r) ==
    /\ pc[r] \in {"recvU", "recvD"}
    /\ IF recv_source(r) >= comm_size
         THEN /\ Raise(r, "MPIError")
              /\ UNCHANGED chan
         ELSE \E s \in Ranks :
                 LET i == first_match(chan[s][r], tag[r])
                 IN /\ i # 0
                    /\ l_U' = [l_U EXCEPT ![r][tag[r] + 1] = chan[s][r][i].val]
                    /\ chan' = [chan EXCEPT ![s][r] = remove_at(@, i)]
                    /\ pc' = [pc EXCEPT ![r] = after_recv(r).pc]
                    /\ tag' = [tag EXCEPT ![r] = after_recv(r).tag]
                    /\ UNCHANGED <<err, current_step, active_process, process, ret, M_pre>>
    /\ UNCHANGED <<config, K_local, l_M, l_C, sent, produced, n_C_updates,
                   n_M_updates, harnessVars>>

\* block = comm.recv(source=s, tag=t): blocks until such a message is there.
comm_recv(r) ==
    /\ pc[r] \in {"recvU", "recvD"}
    /\ IF recv_source(r) >= comm_size
         THEN /\ Raise(r, "MPIError")
              /\ UNCHANGED chan
         ELSE LET s == recv_source(r)
                  i == first_match(chan[s][r], tag[r])
              IN /\ i # 0
                 /\ l_U' = [l_U EXCEPT ![r][tag[r] + 1] = chan[s][r][i].val]
                 /\ chan' = [chan EXCEPT ![s][r] = remove_at(@, i)]
                 /\ pc' = [pc EXCEPT ![r] = after_recv(r).pc]
                 /\ tag' = [tag EXCEPT ![r] = after_recv(r).tag]
                 /\ UNCHANGED <<err, current_step, active_process, process, ret, M_pre>>
    /\ UNCHANGED <<config, K_local, l_M, l_C, sent, produced, n_C_updates,
                   n_M_updates, harnessVars>>

\* get_nextprocess_matrixmap as the source has it: the body is `pass`.
get_nextprocess_matrixmap(l_M_own, mid) == None

\* get_nextprocess_matrixmap as the specification describes it: the
\* partner's matrix maps as they were before this step's update.  The
\* partner of a rank of the upper half is middle + 1, of the lower half middle.
get_nextprocess_matrixmap_snapshot(r) ==
    LET partner == IF r <= middle_process(r) THEN middle_process(r) + 1
                   ELSE middle_process(r)
    IN M_pre[partner][current_step[r]]

\* Variant: the update rules writing the lists of the next rank.
owner_is_next_rank(r) == (r + 1) % comm_size

\* The rank whose lists the update rules write: the caller's own.
owner(r) == r

\* update_maps after get_U has returned: get_J, update_crossmap,
\* update_matrixmap, then on to the next group, the next step or the return.
merge(r, l_M_ip1) ==
    /\ pc[r] = "merge"
    /\ LET mid == middle_process(r) IN
       IF mid >= Len(l_upperbridges[r])
         THEN /\ Raise(r, "IndexError")
              /\ UNCHANGED <<l_M, l_C, n_C_updates, n_M_updates>>
       ELSE LET Bu_mid == At(l_upperbridges[r], mid)
                Bl_mid == At(l_lowerbridges[r], mid)
                J == get_J(l_U[r], Bu_mid, Bl_mid)
            IN
            IF J = None
              THEN /\ Raise(r, "LinAlgError")
                   /\ UNCHANGED <<l_M, l_C, n_C_updates, n_M_updates>>
            ELSE LET C == update_crossmap(r, l_C[r], l_M[r], l_M_ip1,
                                          Bu_mid, Bl_mid, J, mid)
                 IN
                 IF C = None
                   THEN /\ Raise(r, "TypeError")
                        /\ UNCHANGED <<l_M, l_C, n_C_updates, n_M_updates>>
                   ELSE /\ l_C' = [l_C EXCEPT ![owner(r)] = C]
                        /\ n_C_updates' = [n_C_updates EXCEPT ![r] = @ + 1]
                        /\ l_M' = [l_M EXCEPT ![owner(r)] =
                                     update_matrixmap(r, l_M[r], l_U[r], Bu_mid,
                                                      Bl_mid, J, mid)]
                        /\ n_M_updates' = [n_M_updates EXCEPT ![r] = @ + 1]
                        /\ Enter(r, advance(r, current_step[r],
                                            active_process[r]
                                              + process_stride(current_step[r])),
                                 K_local[r])
    /\ UNCHANGED <<config, K_local, chan, sent, produced, harnessVars>>

\* The code as it stands.
update_maps(r) ==
    merge(r, get_nextprocess_matrixmap(l_M[r], middle_process(r)))

\* The code with get_nextprocess_matrixmap filled in from the specification.
update_maps_snapshot(r) ==
    /\ pc[r] = "merge"
    /\ merge(r, get_nextprocess_matrixmap_snapshot(r))

\* One iteration of `for active_process in range(0, comm_size, process_stride)`
\* as rank g_rank runs it at step g_step.
update_maps_loop ==
    /\ g_active < g_size
    /\ LET e == ending_process_of(g_active, g_step) IN
       /\ g_groups' = Append(g_groups,
              [starting |-> g_active, ending |-> e,
               middle |-> get_middle_process(g_active, e)])
       /\ g_hits' = g_hits + (IF in_group(g_rank, g_active, g_step) THEN 1 ELSE 0)
    /\ g_active' = g_active + process_stride(g_step)
    /\ UNCHANGED <<g_size, g_step, g_rank, procVars, ruleVars>>

\* --------------------------------------------------------- specifications
ProcInit(P, s, mode, e) ==
    /\ comm_size = P
    /\ seed = s
    /\ send_mode = mode
    /\ entry = e
    /\ pc = [r \in 0..(P - 1) |-> "start"]
    /\ err = [r \in 0..(P - 1) |-> "none"]
    /\ current_step = [r \in 0..(P - 1) |-> 0]
    /\ active_process = [r \in 0..(P - 1) |-> 0]
    /\ process = [r \in 0..(P - 1) |-> 0]
    /\ tag = [r \in 0..(P - 1) |-> 0]
    /\ K_local = [r \in 0..(P - 1) |-> partition_K(s, r)]
    /\ l_M = [r \in 0..(P - 1) |-> None]
    /\ l_C = [r \in 0..(P - 1) |-> None]
    /\ l_U = [r \in 0..(P - 1) |-> None]
    /\ l_upperbridges = [r \in 0..(P - 1) |-> partition_Bu(s, P)]
    /\ l_lowerbridges = [r \in 0..(P - 1) |-> partition_Bl(s, P)]
    /\ ret = [r \in 0..(P - 1) |-> None]
    /\ chan = [a \in 0..(P - 1) |-> [b \in 0..(P - 1) |-> <<>>]]
    /\ sent = {}
    /\ produced = {}
    /\ M_pre = [r \in 0..(P - 1) |-> <<>>]
    /\ n_C_updates = [r \in 0..(P - 1) |-> 0]
    /\ n_M_updates = [r \in 0..(P - 1) |-> 0]

GroupIdle ==
    /\ g_size = 0
    /\ g_step = 0
    /\ g_rank = 0
    /\ g_active = 0
    /\ g_groups = <<>>
    /\ g_hits = 0

RuleIdle ==
    /\ h_M = None
    /\ h_M_ip1 = None
    /\ h_C = None
    /\ h_U = None
    /\ h_Bu_mid = 0
    /\ h_Bl_mid = 0
    /\ h_n = 0
    /\ h_applied = {}

Init ==
    /\ \E P \in CommSizes, s \in 1..MaxSeed,
          mode \in {"buffered", "rendezvous"}, e \in {"pdiv_localmap", "pdiv"} :
          ProcInit(P, s, mode, e)
    /\ GroupIdle
    /\ RuleIdle

Next ==
    \/ \E r \in Ranks : pdiv(r)
    \/ \E r \in Ranks : pdiv_localmap(r)
    \/ \E r \in Ranks : get_U_produce_upper(r)
    \/ \E r \in Ranks : get_U_produce_lower(r)
    \/ \E r \in Ranks : comm_send(r)
    \/ \E r \in Ranks : comm_recv(r)
    \/ \E r \in Ranks : update_maps(r)

Spec == Init /\ [][Next]_vars

NextSnapshot ==
    \/ \E r \in Ranks : pdiv(r)
    \/ \E r \in Ranks : pdiv_localmap(r)
    \/ \E r \in Ranks : get_U_produce_upper(r)
    \/ \E r \in Ranks : get_U_produce_lower(r)
    \/ \E r \in Ranks : comm_send(r)
    \/ \E r \in Ranks : comm_recv(r)
    \/ \E r \in Ranks : update_maps_snapshot(r)

SpecSnapshot == Init /\ [][NextSnapshot]_vars

InitGroups ==
    /\ ProcInit(1, 1, "buffered", "pdiv_localmap")
    /\ g_size \in {Pow2(j) : j \in 1..MaxLogP}
    /\ g_step \in 1..IntLog2(g_size)
    /\ g_rank \in 0..(g_size - 1)
    /\ g_active = 0
    /\ g_groups = <<>>
    /\ g_hits = 0
    /\ RuleIdle

SpecGroups == InitGroups /\ [][update_maps_loop]_vars

\* ------------------------------------------- the update rules on their own
\* Lists of 12 maps and of 6 boundary blocks to apply the rules to: the
\* seeds of the maps, and lists of different non-zero blocks.
MapFamily(a) ==
    IF a = 0 THEN initialize_matrixmaps
    ELSE [i \in 1..12 |-> (7 * a + 3 * i) % Modulus]

BlockFamily(c) == [i \in 1..6 |-> (5 * c + 2 * i) % Modulus]

\* J as update_maps computes it from the blocks and the bridges.
h_J == get_J(h_U, h_Bu_mid, h_Bl_mid)

RuleApplied(name) ==
    /\ h_n < MaxRuleSteps
    /\ h_n' = h_n + 1
    /\ h_applied' = h_applied \cup {name}
    /\ UNCHANGED <<h_M_ip1, h_U, h_Bu_mid, h_Bl_mid, procVars, groupVars>>

rule_update_crossmap_upper ==
    /\ RuleApplied("update_crossmap_upper")
    /\ h_C' = update_crossmap_upper(h_M, h_M_ip1, h_C, h_Bu_mid, h_J)
    /\ UNCHANGED h_M

rule_update_crossmap_middle ==
    /\ RuleApplied("update_crossmap_middle")
    /\ h_C' = update_crossmap_middle(h_M, h_M_ip1, h_C, h_Bu_mid, h_Bl_mid, h_J)
    /\ UNCHANGED h_M

rule_update_crossmap_lower ==
    /\ RuleApplied("update_crossmap_lower")
    /\ h_C' = update_crossmap_lower(h_M, h_M_ip1, h_C, h_Bl_mid, h_J)
    /\ UNCHANGED h_M

rule_update_matrixmap_upper ==
    /\ RuleApplied("update_matrixmap_upper")
    /\ h_M' = update_matrixmap_upper(h_M, At(h_U, 0), At(h_U, 4), At(h_U, 1),
                                     At(h_U, 5), h_Bu_mid, h_Bl_mid,
                                     h_J[1][1], h_J[1][2], h_J[2][2])
    /\ UNCHANGED h_C

rule_update_matrixmap_lower ==
    /\ RuleApplied("update_matrixmap_lower")
    /\ h_M' = update_matrixmap_lower(h_M, At(h_U, 0), At(h_U, 4), At(h_U, 1),
                                     At(h_U, 5), h_Bu_mid, h_Bl_mid,
                                     h_J[1][1], h_J[2][1], h_J[2][2])
    /\ UNCHANGED h_C

InitRules ==
    /\ ProcInit(1, 1, "buffered", "pdiv_localmap")
    /\ GroupIdle
    /\ \E a \in 0..MaxRuleSeed, b \in 0..MaxRuleSeed, c \in 1..MaxRuleSeed :
          /\ h_M = MapFamily(a)
          /\ h_M_ip1 = MapFamily(b)
          /\ h_U = BlockFamily(c)
    /\ h_Bu_mid \in {1, 2}
    /\ h_Bl_mid \in {1, Neg(1)}
    /\ h_C = initialize_crossmaps
    /\ h_n = 0
    /\ h_applied = {}
    /\ h_J # None

NextRules ==
    \/ rule_update_crossmap_upper
    \/ rule_update_crossmap_middle
    \/ rule_update_crossmap_lower
    \/ rule_update_matrixmap_upper
    \/ rule_update_matrixmap_lower

SpecRules == InitRules /\ [][NextRules]_vars

\* ------------------------------------------------------------------ claims
\* The reference solution of the test driver: A_refsol = np.linalg.inv(A).
A_refsol ==
    np_linalg_inv(generateBandedDiagonalMatrix(seed, comm_size * NBlocksLocal))

\* The slice of the reference solution on the rows and columns of rank r.
A_local_slice_of_refsolution(r) ==
    [i \in 1..NBlocksLocal |-> [j \in 1..NBlocksLocal |->
        A_refsol[r * NBlocksLocal + i][r * NBlocksLocal + j]]]

\* A run of pdiv_localmap on a power-of-two communicator in which no
\* inversion has raised.
HealthyRun ==
    /\ entry = "pdiv_localmap"
    /\ IsPowerOfTwo(comm_size)
    /\ \A q \in Ranks : err[q] # "LinAlgError"

Ended(r) == pc[r] \in {"done", "error"}

\* C1: on a power-of-two communicator and a non-singular A, pdiv_localmap
\* ends on every rank by returning a K_local equal to the rank's diagonal
\* slice of the dense inverse of A.
C1_ReturnsSliceOfInverse ==
    HealthyRun =>
        \A r \in Ranks :
            Ended(r) =>
                /\ A_refsol # None
                /\ pc[r] = "done"
                /\ ret[r][1] = A_local_slice_of_refsolution(r)

\* C2: with a worker count that is not a power of two, every rank fails with
\* the configuration error before it inverts its partition, and no rank
\* ever sends or waits in a receive.
C2_RejectsBeforeAnyWork ==
    ~IsPowerOfTwo(comm_size) =>
        /\ sent = {}
        /\ \A r \in Ranks :
              /\ pc[r] \in {"start", "error"}
              /\ pc[r] = "error" => err[r] = "ValueError"
              /\ K_local[r] = partition_K(seed, r)

\* C3: in a healthy run on a power-of-two communicator no rank stops with
\* an error, and a rank that has stopped has returned after log2(P) steps.
C3_NoRankStopsWithError ==
    HealthyRun =>
        \A r \in Ranks :
            /\ pc[r] # "error"
            /\ pc[r] = "done" => n_M_updates[r] = n_reduction_steps

\* A healthy run on several ranks in which a rank has ended its call.
C1_SomeRankEnded ==
    /\ HealthyRun
    /\ comm_size > 1
    /\ A_refsol # None
    /\ \E r \in Ranks : Ended(r)

\* pdiv_localmap under way on a communicator that is not a power of two.
C2_NonPowerOfTwoStarted ==
    /\ ~IsPowerOfTwo(comm_size)
    /\ entry = "pdiv_localmap"
    /\ \E r \in Ranks : pc[r] # "start"

\* ---- the group loop of one reduction step (SpecGroups)
GroupLoopDone == g_active >= g_size

GroupRanks(G) == G.starting..G.ending

\* C4: at step k the groups [g, g + 2^k - 1] for g = 0, 2^k, ... are
\* pairwise disjoint and together cover the ranks 0..P-1, so a rank lies in
\* exactly one group of the step.
C4_GroupsPartitionRanks ==
    /\ \A i, j \in 1..Len(g_groups) :
          i # j => GroupRanks(g_groups[i]) \cap GroupRanks(g_groups[j]) = {}
    /\ \A i \in 1..Len(g_groups) :
          /\ g_groups[i].starting = (i - 1) * Pow2(g_step)
          /\ g_groups[i].ending = g_groups[i].starting + Pow2(g_step) - 1
    /\ g_hits <= 1
    /\ GroupLoopDone =>
          /\ UNION {GroupRanks(g_groups[i]) : i \in 1..Len(g_groups)}
                 = 0..(g_size - 1)
          /\ g_hits = 1
          /\ Len(g_groups) * Pow2(g_step) = g_size

\* A finished loop of a step k >= 2 with the rank in a later group.
C4_SeveralGroupsEnumerated ==
    /\ GroupLoopDone
    /\ g_step >= 2
    /\ Len(g_groups) >= 2
    /\ g_rank > g_groups[1].ending

\* C5: in a healthy run every rank has applied exactly one cross-map update
\* and one matrix-map update per reduction step, log2(P) of each, when its
\* call ends.
C5_OneMergePerStep ==
    HealthyRun =>
        \A r \in Ranks :
            /\ n_C_updates[r] = n_M_updates[r]
            /\ Ended(r) =>
                  /\ n_C_updates[r] = n_reduction_steps
                  /\ n_M_updates[r] = n_reduction_steps

\* C6: the middle process of the group [g, g + 2^k - 1] is g + 2^(k-1) - 1,
\* the last rank of the upper half; it and its successor both lie in the
\* group, and the value depends on the group's bounds only.
C6_MiddleIsLastOfUpperHalf ==
    \A i \in 1..Len(g_groups) :
        LET G == g_groups[i] IN
        /\ G.middle = G.starting + Pow2(g_step - 1) - 1
        /\ G.starting <= G.middle
        /\ G.middle + 1 <= G.ending
        /\ G.middle - G.starting + 1 = G.ending - G.middle

\* The second group of a step k = 3, its middle three ranks after its start.
C6_LaterGroupOfWideStep ==
    /\ g_step >= 3
    /\ Len(g_groups) >= 2
    /\ g_groups[2].middle = g_groups[2].starting + 3

\* ---- the exchange of the boundary blocks
GroupStartOf(r, k) == r - (r % Pow2(k))

SameGroup(r, q, k) == GroupStartOf(r, k) = GroupStartOf(q, k)

GroupOf(r, k) == {q \in Ranks : SameGroup(r, q, k)}

MiddleOf(r, k) == GroupStartOf(r, k) + Pow2(k - 1) - 1

\* The rank that produces the block of tag t in the group of r at step k.
ProducerOf(r, k, t) == IF t < 3 THEN MiddleOf(r, k) ELSE MiddleOf(r, k) + 1

\* The values rank p has computed at step k for the block of tag t.
ProducedBlocks(p, k, t) ==
    {b.blocks[(t % 3) + 1] :
        b \in {c \in produced : /\ c.rank = p
                                /\ c.step = k
                                /\ c.half = (IF t < 3 THEN "U" ELSE "D")}}

Sends(p, q, k, t) ==
    {m \in sent : m.src = p /\ m.dst = q /\ m.step = k /\ m.tag = t}

StepDone(q, k) == n_C_updates[q] >= k /\ n_M_updates[q] >= k

GetUStates == {"produceU", "sendU", "recvU", "produceD", "sendD", "recvD"}

InGetU(r) == pc[r] \in GetUStates

\* The other producers of r's current group that have stopped with an error
\* without having sent a block of r's current step.
StoppedProducers(r) ==
    {p \in {ProducerOf(r, current_step[r], 0), ProducerOf(r, current_step[r], 3)} :
        /\ p \in Ranks
        /\ p # r
        /\ pc[p] = "error"
        /\ ~\E m \in sent : m.src = p /\ m.step = current_step[r]}

Waiting(r) == InGetU(r) /\ StoppedProducers(r) # {}

\* The steps rank r can take in the code as it stands.
RankStep(r) ==
    \/ pdiv(r)
    \/ pdiv_localmap(r)
    \/ get_U_produce_upper(r)
    \/ get_U_produce_lower(r)
    \/ comm_send(r)
    \/ comm_recv(r)
    \/ update_maps(r)

\* A rank that no step of any rank can move: its own steps are disabled and
\* it is not the receiver a sender is waiting for.
Blocked(r) ==
    /\ InGetU(r)
    /\ ~ENABLED RankStep(r)
    /\ ~\E p \in Ranks : pc[p] \in {"sendU", "sendD"} /\ process[p] = r
                           /\ ENABLED comm_send(p)

\* C9 as stated: when a producer of a group has stopped before sending, a
\* rank of the group that can go no further is blocked in its receive.
C9_BlockedInReceive ==
    \A r \in Ranks :
        (Waiting(r) /\ Blocked(r)) => pc[r] \in {"recvU", "recvD"}

\* C9, amended: when a producer of a group has stopped before sending, every
\* other rank of the group that has entered get_U of that step stays inside
\* that call for ever, in a receive from the stopped rank or, when
\* comm.send waits for the matching receive, in a send to it; it reaches no
\* later step and no error is raised on it.
C9_WaitingRankNeverLeavesGetU ==
    [][\A r \in Ranks :
          Waiting(r) =>
             /\ pc'[r] \in GetUStates
             /\ current_step'[r] = current_step[r]
             /\ err'[r] = "none"
             /\ n_M_updates'[r] = n_M_updates[r]
             /\ StoppedProducers(r)' = StoppedProducers(r)]_vars

\* A rank blocked in a synchronous send to a stopped producer.
C9_BlockedInSendToStoppedRank ==
    \E r \in Ranks :
        /\ Waiting(r)
        /\ Blocked(r)
        /\ pc[r] = "sendU"
        /\ process[r] \in StoppedProducers(r)

\* ---- what a step of one rank writes
RankStepSnapshot(r) ==
    \/ pdiv(r)
    \/ pdiv_localmap(r)
    \/ get_U_produce_upper(r)
    \/ get_U_produce_lower(r)
    \/ comm_send(r)
    \/ comm_recv(r)
    \/ update_maps_snapshot(r)

C12_SingleRankIsLocalInverse ==
    (comm_size = 1 /\ entry = "pdiv_localmap") =>
        /\ sent = {}
        /\ produced = {}
        /\ chan[0][0] = <<>>
        /\ pc[0] \in {"start", "done", "error"}
        /\ current_step[0] = 0
        /\ n_C_updates[0] = 0
        /\ n_M_updates[0] = 0
        /\ pc[0] = "error" =>
              /\ err[0] = "LinAlgError"
              /\ invert_partition(partition_K(seed, 0)) = None
        /\ pc[0] = "done" =>
              /\ ret[0][1] = invert_partition(partition_K(seed, 0))
              /\ ret[0][1] # None
              /\ l_M[0] = initialize_matrixmaps
              /\ l_C[0] = initialize_crossmaps

\* The single rank has returned an inverse that differs from its input.
C12_SingleRankReturned ==
    /\ comm_size = 1
    /\ entry = "pdiv_localmap"
    /\ pc[0] = "done"
    /\ ret[0][1] # partition_K(seed, 0)
    /\ l_M[0] = initialize_matrixmaps

\* ---- the seeds of the maps
Seeded(r) == l_M[r] # None /\ n_M_updates[r] = 0 /\ n_C_updates[r] = 0

\* C13: initialize_matrixmaps gives 12 blocks, the identity in the slots
\* 0, 3, 4, 7 and zero in the eight others, and initialize_crossmaps gives
\* 12 zero blocks; the seeds are the same on every rank whatever its K_local,
\* and seeding leaves K_local as invert_partition returned it.
C13_SeedMaps ==
    \A r \in Ranks :
        Seeded(r) =>
            /\ Len(l_M[r]) = 12
            /\ Len(l_C[r]) = 12
            /\ \A i \in {0, 3, 4, 7} : At(l_M[r], i) = 1
            /\ \A i \in {1, 2, 5, 6, 8, 9, 10, 11} : At(l_M[r], i) = 0
            /\ \A i \in 0..11 : At(l_C[r], i) = 0
            /\ \A q \in Ranks : Seeded(q) => l_M[q] = l_M[r] /\ l_C[q] = l_C[r]
            /\ K_local[r] = invert_partition(partition_K(seed, r))

\* Two ranks with different inverted partitions hold the same seeds.
C13_TwoRanksSeeded ==
    \E r, q \in Ranks :
        /\ Seeded(r)
        /\ Seeded(q)
        /\ K_local[r] # K_local[q]
        /\ K_local[r] # partition_K(seed, r)

\* ---- the maps the cross-map update reads
\* The rank across the middle whose matrix maps a rank of the group reads.
PartnerOf(r) ==
    IF r <= middle_process(r) THEN middle_process(r) + 1 ELSE middle_process(r)

\* C14: when a rank is about to run update_crossmap, its own matrix maps are
\* those it had on entering this step, and what get_nextprocess_matrixmap
\* hands to the rule is the partner's set of 12 matrix maps as it was before
\* the partner's update of this step.
C14_CrossMapReadsPreUpdateMaps ==
    \A r \in Ranks :
        pc[r] = "merge" =>
            /\ l_M[r] = M_pre[r][current_step[r]]
            /\ get_nextprocess_matrixmap(l_M[r], middle_process(r))
                  = M_pre[PartnerOf(r)][current_step[r]]

\* ---- the coupling matrix
\* The coupling matrix get_J builds on rank r, before its inversion.
CouplingMatrix(r) ==
    J_matrix(l_U[r], At(l_upperbridges[r], middle_process(r)),
                     At(l_lowerbridges[r], middle_process(r)))

\* C15 as stated: the matrix get_J inverts is
\* [[I, -ULL*Bl_mid], [-DUR*Bu_mid, I]], with ULL = l_U[1] and DUR = l_U[4].
C15_CouplingFromULLAndDUR ==
    \A r \in Ranks :
        pc[r] = "merge" =>
            LET Bu == At(l_upperbridges[r], middle_process(r))
                Bl == At(l_lowerbridges[r], middle_process(r))
            IN CouplingMatrix(r) =
                  << <<1, Neg(Mul(At(l_U[r], 1), Bl))>>,
                     <<Neg(Mul(At(l_U[r], 4), Bu)), 1>> >>

\* C15, amended: the matrix get_J inverts is
\* [[I, -DUL*Bl_mid], [-ULR*Bu_mid, I]], with DUL the block middle+1 produced
\* under tag 3 and ULR the block middle produced under tag 2, and with the
\* pair of bridges at index middle; the four other blocks of get_U are not
\* read.
C15_CouplingFromDULAndULR ==
    \A r \in Ranks :
        pc[r] = "merge" =>
            LET k == current_step[r]
                mid == middle_process(r)
                Bu == At(l_upperbridges[r], mid)
                Bl == At(l_lowerbridges[r], mid)
                J == CouplingMatrix(r)
            IN /\ J[1][1] = 1
               /\ J[2][2] = 1
               /\ {J[1][2]} = {Neg(Mul(d, Bl)) : d \in ProducedBlocks(mid + 1, k, 3)}
               /\ {J[2][1]} = {Neg(Mul(u, Bu)) : u \in ProducedBlocks(mid, k, 2)}
               /\ \A x \in {0, 1} :
                     J_matrix(<<x, x, At(l_U[r], 2), At(l_U[r], 3), x, x>>, Bu, Bl) = J

\* get_U has returned with ULL, DUL, ULR, DUR all different and non-zero
\* bridges, so that the two readings of the coupling matrix differ.
C15_BlocksTellReadingsApart ==
    \E r \in Ranks :
        /\ pc[r] = "merge"
        /\ At(l_U[r], 1) # At(l_U[r], 3)
        /\ At(l_U[r], 2) # At(l_U[r], 4)
        /\ At(l_upperbridges[r], middle_process(r)) # 0
        /\ At(l_lowerbridges[r], middle_process(r)) # 0
        /\ CouplingMatrix(r)[1][2] # 0
        /\ CouplingMatrix(r)[2][1] # 0

\* ---- the choice of the update rule
Bu_mid_of(r) == At(l_upperbridges[r], middle_process(r))
Bl_mid_of(r) == At(l_lowerbridges[r], middle_process(r))
J_of(r) == get_J(l_U[r], Bu_mid_of(r), Bl_mid_of(r))

CrossMapByUpperRule(r) ==
    update_crossmap_upper(l_M[r], M_pre[PartnerOf(r)][current_step[r]],
                          l_C[r], Bu_mid_of(r), J_of(r))

CrossMapByMiddleRule(r) ==
    update_crossmap_middle(l_M[r], M_pre[PartnerOf(r)][current_step[r]],
                           l_C[r], Bu_mid_of(r), Bl_mid_of(r), J_of(r))

CrossMapByLowerRule(r) ==
    update_crossmap_lower(l_M[r], M_pre[PartnerOf(r)][current_step[r]],
                          l_C[r], Bl_mid_of(r), J_of(r))

MatrixMapByUpperRule(r) ==
    update_matrixmap_upper(l_M[r], At(l_U[r], 0), At(l_U[r], 4), At(l_U[r], 1),
                           At(l_U[r], 5), Bu_mid_of(r), Bl_mid_of(r),
                           J_of(r)[1][1], J_of(r)[1][2], J_of(r)[2][2])

MatrixMapByLowerRule(r) ==
    update_matrixmap_lower(l_M[r], At(l_U[r], 0), At(l_U[r], 4), At(l_U[r], 1),
                           At(l_U[r], 5), Bu_mid_of(r), Bl_mid_of(r),
                           J_of(r)[1][1], J_of(r)[2][1], J_of(r)[2][2])

C17_RulesUpdateInPlaceInOrder ==
    [][LET M == h_M
           N == h_M'
           Bu == h_Bu_mid
           Bl == h_Bl_mid
           UUR == At(h_U, 0)
           ULL == At(h_U, 1)
           DUR == At(h_U, 4)
           DLL == At(h_U, 5)
           J12 == h_J[1][2]
           J21 == h_J[2][1]
       IN /\ rule_update_matrixmap_upper =>
                /\ \A i \in {0, 1} :
                      /\ At(N, i) = Add(At(M, i), Mul4(UUR, Bu, J12, At(M, 6 + i)))
                      /\ At(N, 4 + i) = Add(At(M, 4 + i), Mul4(At(N, 2 + i), Bu, J12, ULL))
                /\ \A i, j \in {0, 1} :
                      At(N, 8 + 2 * i + j) =
                         Add(At(M, 8 + 2 * i + j),
                             Mul4(At(N, 2 + i), Bu, J12, At(N, 6 + j)))
          /\ rule_update_matrixmap_lower =>
                /\ \A i \in {0, 1} :
                      /\ At(N, 2 + i) = Add(At(M, 2 + i), Mul4(At(M, 4 + i), Bl, J21, DUR))
                      /\ At(N, 6 + i) = Add(At(M, 6 + i), Mul4(DLL, Bl, J21, At(N, i)))
                /\ \A i, j \in {0, 1} :
                      At(N, 8 + 2 * i + j) =
                         Add(At(M, 8 + 2 * i + j),
                             Mul4(At(N, 4 + i), Bl, J21, At(N, j)))]_vars

\* Both matrix-map rules have been applied, and on the maps they left each
\* rule run in place and run on a snapshot give different results.
C17_InPlaceDiffersFromSnapshot ==
    /\ {"update_matrixmap_upper", "update_matrixmap_lower"} \subseteq h_applied
    /\ update_matrixmap_upper(h_M, At(h_U, 0), At(h_U, 4), At(h_U, 1),
                              At(h_U, 5), h_Bu_mid, h_Bl_mid,
                              h_J[1][1], h_J[1][2], h_J[2][2])
         # update_matrixmap_upper_from_snapshot(
               h_M, At(h_U, 0), At(h_U, 4), At(h_U, 1), At(h_U, 5),
               h_Bu_mid, h_Bl_mid, h_J[1][1], h_J[1][2], h_J[2][2])
    /\ update_matrixmap_lower(h_M, At(h_U, 0), At(h_U, 4), At(h_U, 1),
                              At(h_U, 5), h_Bu_mid, h_Bl_mid,
                              h_J[1][1], h_J[2][1], h_J[2][2])
         # update_matrixmap_lower_from_snapshot(
               h_M, At(h_U, 0), At(h_U, 4), At(h_U, 1), At(h_U, 5),
               h_Bu_mid, h_Bl_mid, h_J[1][1], h_J[2][1], h_J[2][2])

\* The local partition of rank r is singular and rank r is about to invert it.
PartitionInversionFails(r) ==
    /\ entry = "pdiv_localmap"
    /\ pc[r] = "start"
    /\ np_linalg_inv(K_local[r]) = None

\* Rank r holds the six blocks of its step and their coupling matrix is
\* singular.
CouplingInversionFails(r) ==
    /\ pc[r] = "merge"
    /\ middle_process(r) < Len(l_upperbridges[r])
    /\ np_linalg_inv(J_matrix(l_U[r],
                              At(l_upperbridges[r], middle_process(r)),
                              At(l_lowerbridges[r], middle_process(r)))) = None

SentBy(r) == {m \in sent : m.src = r}

\* C18: the step a rank takes from a failing inversion (of its partition, or
\* of the coupling matrix) ends it with LinAlgError, and from then on the rank
\* takes no step: its partition is not inverted again, it returns nothing and
\* it sends no message.
C18_InversionFailureIsFatal ==
    [][\A r \in Ranks :
          /\ ((PartitionInversionFails(r) \/ CouplingInversionFails(r))
                /\ pc'[r] # pc[r])
               => /\ pc'[r] = "error"
                  /\ err'[r] = "LinAlgError"
                  /\ ret'[r] = None
                  /\ K_local'[r] = K_local[r]
                  /\ SentBy(r)' = SentBy(r)
          /\ err[r] = "LinAlgError"
               => /\ pc'[r] = "error"
                  /\ err'[r] = "LinAlgError"
                  /\ ret'[r] = None
                  /\ K_local'[r] = K_local[r]
                  /\ l_M'[r] = l_M[r]
                  /\ l_C'[r] = l_C[r]
                  /\ SentBy(r)' = SentBy(r)]_vars

\* One rank has ended on a singular partition and another, which had sent
\* blocks before, on a singular coupling matrix.
C18_BothInversionsFailed ==
    \E r, q \in Ranks :
        /\ err[r] = "LinAlgError"
        /\ current_step[r] = 0
        /\ err[q] = "LinAlgError"
        /\ current_step[q] >= 1
        /\ SentBy(q) # {}

CrossMapRules ==
    {"update_crossmap_upper", "update_crossmap_middle", "update_crossmap_lower"}

\* C19: whatever update rules have been applied, slots 8, 9, 10 and 11 of a
\* CrossMap list hold the zero block initialize_crossmaps put there.
C19_CrossMapTailNeverWritten ==
    /\ h_C # None => \A i \in 8..11 : At(h_C, i) = At(initialize_crossmaps, i)
    /\ \A r \in Ranks :
          l_C[r] # None => \A i \in 8..11 : At(l_C[r], i) = At(initialize_crossmaps, i)

\* Two different cross-map rules have been applied and every slot 0..7 has
\* left its initial value.
C19_FirstEightSlotsWritten ==
    /\ Cardinality(h_applied \cap CrossMapRules) >= 2
    /\ \A i \in 0..7 : At(h_C, i) # At(initialize_crossmaps, i)

\* The cross-map rules applied so far are at most the lower one.
OnlyLowerCrossMapRule == h_applied \cap CrossMapRules \subseteq {"update_crossmap_lower"}

\* C20: update_crossmap_lower adds M[4] * Bl_mid * J21 * M_ip1[0] to C[0] and
\* the same block to C[1]; so as long as no other cross-map rule has been
\* applied to a list, its C[0] and C[1] are equal.
C20_LowerRuleSameIncrementTwice ==
    [][/\ rule_update_crossmap_lower =>
            LET inc == Mul4(At(h_M, 4), h_Bl_mid, h_J[2][1], At(h_M_ip1, 0))
            IN /\ At(h_C', 0) = Add(At(h_C, 0), inc)
               /\ At(h_C', 1) = Add(At(h_C, 1), inc)
       /\ (h_C' # None /\ OnlyLowerCrossMapRule') => At(h_C', 0) = At(h_C', 1)]_vars

\* The lower rule has been applied twice, and only it; C[0] and C[1] are the
\* same non-zero block although the partner's M[0] and M[1] differ and the
\* next pair of slots, C[2] and C[3], differ.
C20_EqualSlotsFromDifferentMaps ==
    /\ h_n >= 2
    /\ h_applied = {"update_crossmap_lower"}
    /\ At(h_C, 0) = At(h_C, 1)
    /\ At(h_C, 0) # 0
    /\ At(h_M_ip1, 0) # At(h_M_ip1, 1)
    /\ At(h_C, 2) # At(h_C, 3)

\* ---- frame of the reduction steps
\* The inverse of the partition rank r was given.
LocalInverse(r) == np_linalg_inv(partition_K(seed, r))

RecvStates == {"recvU", "recvD"}

\* The <<source, tag>> pairs of what is addressed to rank r from a later step
\* than the one r is in: messages delivered and not yet received, and sends
\* of a later step waiting for r.
LaterStepPairs(r) ==
    UNION {{<<q, chan[q][r][i].tag>> :
               i \in {j \in 1..Len(chan[q][r]) :
                         chan[q][r][j].step > current_step[r]}} : q \in Ranks}
    \cup
    {<<q, tag[q]>> :
        q \in {p \in Ranks : /\ pc[p] \in {"sendU", "sendD"}
                             /\ process[p] = r
                             /\ current_step[p] > current_step[r]}}

\* Rank r is in a receive and nothing addressed to it from a later step has
\* the source and the tag of that receive.
NoLaterStepMatch(r) ==
    (pc[r] \in RecvStates /\ recv_source(r) \in Ranks)
        => <<recv_source(r), tag[r]>> \notin LaterStepPairs(r)

Merges(size) ==
    {m \in (1..IntLog2(size)) \X (0..(size - 1)) :
        m[2] \in range_active_process(size, m[1])}

\* The index at which a merge reads l_upperbridges and l_lowerbridges.
BridgeOf(m) == get_middle_process(m[2], ending_process_of(m[2], m[1]))

\* The loops alone: the middle of every group the loop enumerates is a bridge
\* index in 0..P-2 that no other group of the step and no group of another
\* step has, and over all steps every index in 0..P-2 is the middle of
\* exactly one group.
EachBridgeInOneGroupOfTheLoops ==
    /\ \A i \in 1..Len(g_groups) :
          /\ g_groups[i].middle \in 0..(g_size - 2)
          /\ g_groups[i].middle = BridgeOf(<<g_step, g_groups[i].starting>>)
          /\ \A j \in 1..Len(g_groups) :
                g_groups[j].middle = g_groups[i].middle => j = i
          /\ \A m \in Merges(g_size) :
                BridgeOf(m) = g_groups[i].middle => m[1] = g_step
    /\ \A m \in Merges(g_size) : BridgeOf(m) \in 0..(g_size - 2)
    /\ \A b \in 0..(g_size - 2) :
          Cardinality({m \in Merges(g_size) : BridgeOf(m) = b}) = 1

\* The merges some rank of the run has carried out at least as far as its
\* reads of the bridges and get_J: those of the steps it has completed and
\* the one it stopped in after get_U.
MergesOfRun ==
    {m \in Merges(comm_size) :
        \E r \in Ranks :
            /\ in_group(r, m[2], m[1])
            /\ \/ n_M_updates[r] >= m[1]
               \/ /\ current_step[r] = m[1]
                  /\ active_process[r] = m[2]
                  /\ \/ pc[r] = "merge"
                     \/ pc[r] = "error" /\ err[r] \in {"TypeError", "LinAlgError"}}

\* C23: in a run on a power-of-two communicator the bridge index of every
\* merge is in 0..P-2 and is that of no other merge, and when the run is
\* over every index in 0..P-2 has been the middle of exactly one merge.
C23_EveryBridgeInExactlyOneMerge ==
    (entry = "pdiv_localmap" /\ IsPowerOfTwo(comm_size)) =>
        /\ \A m \in MergesOfRun :
              /\ BridgeOf(m) \in 0..(comm_size - 2)
              /\ \A n \in MergesOfRun : BridgeOf(n) = BridgeOf(m) => n = m
        /\ (HealthyRun /\ \A r \in Ranks : Ended(r)) =>
              \A b \in 0..(comm_size - 2) :
                 Cardinality({m \in MergesOfRun : BridgeOf(m) = b}) = 1

\* C24: the lower matrix-map rule mirrors the upper one: as the upper rule
\* replaces M[2] and M[3] each by itself times Bu_mid J11 DUR, the lower rule
\* replaces M[4] and M[5] each by itself times Bl_mid J22 ULL; applied to the
\* seed maps it leaves in slot 4 the product of the seeded identity with
\* Bl_mid J22 ULL.
C24_LowerRuleMirrorsUpper ==
    [][LET M == h_M
           N == h_M'
           ULL == At(h_U, 1)
           DUR == At(h_U, 4)
           J11 == h_J[1][1]
           J22 == h_J[2][2]
       IN /\ rule_update_matrixmap_upper =>
                \A i \in {2, 3} :
                   At(N, i) = Mul4(At(M, i), h_Bu_mid, J11, DUR)
          /\ rule_update_matrixmap_lower =>
                /\ \A i \in {4, 5} :
                      At(N, i) = Mul4(At(M, i), h_Bl_mid, J22, ULL)
                /\ M = initialize_matrixmaps =>
                      At(N, 4) = Mul4(1, h_Bl_mid, J22, ULL)]_vars

====
